---------------------------- MODULE Spec2Model ----------------------------
(***************************************************************************)
(* Model of pancurses' src/attributes.rs: the Attribute enumeration, the   *)
(* Attributes value (raw mask + color pair), its generated is_X / set_X    *)
(* accessors and the three `|` operators.                                  *)
(*                                                                         *)
(* A chtype is modelled as a natural number; `|`, `&` and `^` on chtype    *)
(* are computed bit by bit.  The native constants (A_BOLD, ..., and the    *)
(* COLOR_PAIR macro) live outside attributes.rs; they are modelled as a    *)
(* packed layout with pairwise disjoint fields, scaled down so the color   *)
(* field is two bits wide.                                                  *)
(***************************************************************************)
EXTENDS Naturals, FiniteSets, Sequences, TLC

VARIABLES attributes, prev, call, calls, orOnly, nativeOr

vars == <<attributes, prev, call, calls, orOnly, nativeOr>>

(* ------------------------------ bounds --------------------------------- *)

\* number of calls made: the one that constructs the value, then methods
\* and `|` applied to it
MaxCalls == 2

\* color pair numbers passed to set_color_pair / ColorPair(n) are 0..MaxPair
MaxPair == 2

(* ---------------------- chtype bit arithmetic -------------------------- *)

RECURSIVE BitOr(_, _)
BitOr(a, b) ==
    IF a = 0 THEN b
    ELSE IF b = 0 THEN a
    ELSE (IF a % 2 = 1 \/ b % 2 = 1 THEN 1 ELSE 0) + 2 * BitOr(a \div 2, b \div 2)

RECURSIVE BitAnd(_, _)
BitAnd(a, b) ==
    IF a = 0 \/ b = 0 THEN 0
    ELSE (IF a % 2 = 1 /\ b % 2 = 1 THEN 1 ELSE 0) + 2 * BitAnd(a \div 2, b \div 2)

RECURSIVE BitXor(_, _)
BitXor(a, b) ==
    IF a = 0 THEN b
    ELSE IF b = 0 THEN a
    ELSE (IF a % 2 # b % 2 THEN 1 ELSE 0) + 2 * BitXor(a \div 2, b \div 2)

(* ------------- native constants (super::A_*, super::COLOR_PAIR) -------- *)

A_CHARTEXT == 1
PAIR_SHIFT == 1
A_COLOR == 6
A_UNDERLINE == 8
A_REVERSE == 16
A_BLINK == 32
A_DIM == 64
A_BOLD == 128
A_ALTCHARSET == 256
A_INVIS == 512
A_LEFTLINE == 1024
A_RIGHTLINE == 2048
A_ITALIC == 4096
A_OVERLINE == 8192
A_STRIKEOUT == 16384

\* COLOR_PAIR(n): the pair number shifted into the color field and masked
COLOR_PAIR(n) == BitAnd(n * 2^PAIR_SHIFT, A_COLOR)

(* -------------------------- enum Attribute ----------------------------- *)

FlagTags ==
    {"AlternativeCharSet", "Bold", "Blink", "CharText", "Dim", "Leftline",
     "Invisible", "Italic", "Overline", "Reverse", "Rightline", "Strikeout",
     "Underline"}

PairNumbers == 0..MaxPair

Flag(t) == [tag |-> t, num |-> 0]

Normal == [tag |-> "Normal", num |-> 0]

ColorPair(n) == [tag |-> "ColorPair", num |-> n]

Attribute ==
    {Flag(t) : t \in FlagTags} \cup {Normal} \cup {ColorPair(n) : n \in PairNumbers}

(* ------------------------- struct Attributes --------------------------- *)

new == [raw |-> 0, color_pair |-> 0]

attribute_setter_assign(self, attr, enabled) ==
    IF enabled
    THEN [self EXCEPT !.raw = attr]
    ELSE [self EXCEPT !.raw = BitXor(self.raw, attr)]

attribute_setter_and(self, attr, enabled) ==
    IF enabled
    THEN [self EXCEPT !.raw = BitOr(self.raw, attr)]
    ELSE [self EXCEPT !.raw = BitAnd(self.raw, attr)]

attribute_setter(self, attr, enabled) ==
    IF enabled
    THEN [self EXCEPT !.raw = BitOr(self.raw, attr)]
    ELSE [self EXCEPT !.raw = BitXor(self.raw, attr)]

is_alternative_char_set(self) == BitAnd(self.raw, A_ALTCHARSET) > 0
set_alternative_char_set(self, enabled) == attribute_setter(self, A_ALTCHARSET, enabled)

is_bold(self) == BitAnd(self.raw, A_BOLD) > 0
set_bold(self, enabled) == attribute_setter(self, A_BOLD, enabled)

is_blink(self) == BitAnd(self.raw, A_BLINK) > 0
set_blink(self, enabled) == attribute_setter(self, A_BLINK, enabled)

is_char_text(self) == BitAnd(self.raw, A_CHARTEXT) > 0
set_char_text(self, enabled) == attribute_setter(self, A_CHARTEXT, enabled)

is_dim(self) == BitAnd(self.raw, A_DIM) > 0
set_dim(self, enabled) == attribute_setter(self, A_DIM, enabled)

is_leftline(self) == BitAnd(self.raw, A_LEFTLINE) > 0
set_leftline(self, enabled) == attribute_setter(self, A_LEFTLINE, enabled)

is_invisible(self) == BitAnd(self.raw, A_INVIS) > 0
set_invisible(self, enabled) == attribute_setter(self, A_INVIS, enabled)

is_italic(self) == BitAnd(self.raw, A_ITALIC) > 0
set_italic(self, enabled) == attribute_setter(self, A_ITALIC, enabled)

is_normal(self) == self.raw = 0
set_normal(self) == [self EXCEPT !.raw = 0]

is_overline(self) == BitAnd(self.raw, A_OVERLINE) > 0
set_overline(self, enabled) == attribute_setter(self, A_OVERLINE, enabled)

is_reverse(self) == BitAnd(self.raw, A_REVERSE) > 0
set_reverse(self, enabled) == attribute_setter(self, A_REVERSE, enabled)

is_rightline(self) == BitAnd(self.raw, A_RIGHTLINE) > 0
set_rightline(self, enabled) == attribute_setter(self, A_RIGHTLINE, enabled)

is_strikeout(self) == BitAnd(self.raw, A_STRIKEOUT) > 0
set_strikeout(self, enabled) == attribute_setter(self, A_STRIKEOUT, enabled)

is_underline(self) == BitAnd(self.raw, A_UNDERLINE) > 0
set_underline(self, enabled) == attribute_setter(self, A_UNDERLINE, enabled)

color_pair(self) == self.color_pair

set_color_pair_xor(self, n) ==
    [raw |-> BitXor(self.raw, COLOR_PAIR(n)), color_pair |-> n]

set_color_pair(self, n) ==
    [raw |-> BitOr(self.raw, COLOR_PAIR(n)), color_pair |-> n]

(* --------------------------- the | operators --------------------------- *)

\* impl BitOr<Attribute> for Attributes
bitor_Attributes_Attribute(self, rhs) ==
    CASE rhs.tag = "AlternativeCharSet" -> set_alternative_char_set(self, TRUE)
      [] rhs.tag = "Bold" -> set_bold(self, TRUE)
      [] rhs.tag = "Blink" -> set_blink(self, TRUE)
      [] rhs.tag = "CharText" -> set_char_text(self, TRUE)
      [] rhs.tag = "Dim" -> set_dim(self, TRUE)
      [] rhs.tag = "Leftline" -> set_leftline(self, TRUE)
      [] rhs.tag = "Invisible" -> set_invisible(self, TRUE)
      [] rhs.tag = "Italic" -> set_italic(self, TRUE)
      [] rhs.tag = "Normal" -> set_normal(self)
      [] rhs.tag = "Overline" -> set_overline(self, TRUE)
      [] rhs.tag = "Reverse" -> set_reverse(self, TRUE)
      [] rhs.tag = "Rightline" -> set_rightline(self, TRUE)
      [] rhs.tag = "Strikeout" -> set_strikeout(self, TRUE)
      [] rhs.tag = "Underline" -> set_underline(self, TRUE)
      [] rhs.tag = "ColorPair" -> set_color_pair(self, rhs.num)

bitor_Attributes_Attributes_xor(self, rhs) ==
    [raw |-> BitXor(self.raw, rhs.raw),
     color_pair |-> BitOr(self.color_pair, rhs.color_pair)]

\* impl BitOr for Attributes
bitor_Attributes_Attributes(self, rhs) ==
    [raw |-> BitOr(self.raw, rhs.raw),
     color_pair |-> BitOr(self.color_pair, rhs.color_pair)]

bitor_Attribute_Attribute_rhs_only(self, rhs) ==
    bitor_Attributes_Attribute(new, rhs)

\* impl BitOr for Attribute
bitor_Attribute_Attribute(self, rhs) ==
    bitor_Attributes_Attribute(bitor_Attributes_Attribute(new, self), rhs)

\* impl From<Attribute> for Attributes
Attributes_from(attribute) == bitor_Attributes_Attribute(new, attribute)

chtype_from_Attributes_pair(attrs) == attrs.color_pair

\* impl From<Attributes> for chtype
chtype_from_Attributes(attrs) == attrs.raw

\* impl From<Attribute> for chtype
chtype_from_Attribute(attribute) == chtype_from_Attributes(Attributes_from(attribute))

(* ------------------------------ the calls ------------------------------ *)

\* Attributes values a caller holds as the right operand of
\* Attributes | Attributes: `other = Attributes::new() | a`
Operands == {bitor_Attributes_Attribute(new, a) : a \in Attribute}

NoCall == [op |-> "new", x |-> Normal, y |-> Normal, enabled |-> FALSE, rhs |-> new]

\* the `|` of native constants the value has been built from (orOnly says
\* the value was built from new() by `| a` with no Normal among the a's)
NativeOf(a) ==
    CASE a.tag = "AlternativeCharSet" -> A_ALTCHARSET
      [] a.tag = "Bold" -> A_BOLD
      [] a.tag = "Blink" -> A_BLINK
      [] a.tag = "CharText" -> A_CHARTEXT
      [] a.tag = "Dim" -> A_DIM
      [] a.tag = "Leftline" -> A_LEFTLINE
      [] a.tag = "Invisible" -> A_INVIS
      [] a.tag = "Italic" -> A_ITALIC
      [] a.tag = "Normal" -> 0
      [] a.tag = "Overline" -> A_OVERLINE
      [] a.tag = "Reverse" -> A_REVERSE
      [] a.tag = "Rightline" -> A_RIGHTLINE
      [] a.tag = "Strikeout" -> A_STRIKEOUT
      [] a.tag = "Underline" -> A_UNDERLINE
      [] a.tag = "ColorPair" -> COLOR_PAIR(a.num)

Init ==
    /\ attributes = new
    /\ prev = new
    /\ call = NoCall
    /\ calls = 0
    /\ orOnly = TRUE
    /\ nativeOr = 0

\* one method call on the value: result, the call made, and the ghost record
Step(result, c, only, native) ==
    /\ calls > 0
    /\ calls < MaxCalls
    /\ attributes' = result
    /\ prev' = attributes
    /\ call' = c
    /\ calls' = calls + 1
    /\ orOnly' = only
    /\ nativeOr' = native

Setter(t, enabled) == [NoCall EXCEPT !.op = "set", !.x = Flag(t), !.enabled = enabled]

Call_set_alternative_char_set ==
    \E enabled \in BOOLEAN :
        Step(set_alternative_char_set(attributes, enabled),
             Setter("AlternativeCharSet", enabled), FALSE, 0)

Call_set_bold ==
    \E enabled \in BOOLEAN :
        Step(set_bold(attributes, enabled), Setter("Bold", enabled), FALSE, 0)

Call_set_blink ==
    \E enabled \in BOOLEAN :
        Step(set_blink(attributes, enabled), Setter("Blink", enabled), FALSE, 0)

Call_set_char_text ==
    \E enabled \in BOOLEAN :
        Step(set_char_text(attributes, enabled), Setter("CharText", enabled), FALSE, 0)

Call_set_dim ==
    \E enabled \in BOOLEAN :
        Step(set_dim(attributes, enabled), Setter("Dim", enabled), FALSE, 0)

Call_set_leftline ==
    \E enabled \in BOOLEAN :
        Step(set_leftline(attributes, enabled), Setter("Leftline", enabled), FALSE, 0)

Call_set_invisible ==
    \E enabled \in BOOLEAN :
        Step(set_invisible(attributes, enabled), Setter("Invisible", enabled), FALSE, 0)

Call_set_italic ==
    \E enabled \in BOOLEAN :
        Step(set_italic(attributes, enabled), Setter("Italic", enabled), FALSE, 0)

Call_set_normal ==
    Step(set_normal(attributes), [NoCall EXCEPT !.op = "set_normal"], FALSE, 0)

Call_set_overline ==
    \E enabled \in BOOLEAN :
        Step(set_overline(attributes, enabled), Setter("Overline", enabled), FALSE, 0)

Call_set_reverse ==
    \E enabled \in BOOLEAN :
        Step(set_reverse(attributes, enabled), Setter("Reverse", enabled), FALSE, 0)

Call_set_rightline ==
    \E enabled \in BOOLEAN :
        Step(set_rightline(attributes, enabled), Setter("Rightline", enabled), FALSE, 0)

Call_set_strikeout ==
    \E enabled \in BOOLEAN :
        Step(set_strikeout(attributes, enabled), Setter("Strikeout", enabled), FALSE, 0)

Call_set_underline ==
    \E enabled \in BOOLEAN :
        Step(set_underline(attributes, enabled), Setter("Underline", enabled), FALSE, 0)

Call_set_color_pair ==
    \E n \in PairNumbers :
        Step(set_color_pair(attributes, n),
             [NoCall EXCEPT !.op = "set_color_pair", !.x = ColorPair(n)], FALSE, 0)

\* attributes = attributes | a
Call_bitor_Attributes_Attribute ==
    \E a \in Attribute :
        Step(bitor_Attributes_Attribute(attributes, a),
             [NoCall EXCEPT !.op = "bitor_attribute", !.x = a],
             orOnly /\ a # Normal,
             IF orOnly /\ a # Normal THEN BitOr(nativeOr, NativeOf(a)) ELSE 0)

\* attributes = attributes | other
Call_bitor_Attributes_Attributes ==
    \E other \in Operands :
        Step(bitor_Attributes_Attributes(attributes, other),
             [NoCall EXCEPT !.op = "bitor_attributes", !.rhs = other], FALSE, 0)

\* the value is constructed: by new(), a | b or Attributes::from(a)
Construct(result, c, only, native) ==
    /\ calls = 0
    /\ attributes' = result
    /\ prev' = attributes
    /\ call' = c
    /\ calls' = 1
    /\ orOnly' = only
    /\ nativeOr' = native

\* let attributes = Attributes::new()
Call_new == Construct(new, NoCall, TRUE, 0)

\* let attributes = a | b
Call_bitor_Attribute_Attribute ==
    \E a, b \in Attribute :
        Construct(bitor_Attribute_Attribute(a, b),
             [NoCall EXCEPT !.op = "attribute_bitor", !.x = a, !.y = b],
             a # Normal /\ b # Normal,
             IF a # Normal /\ b # Normal THEN BitOr(NativeOf(a), NativeOf(b)) ELSE 0)

\* let attributes = Attributes::from(a)
Call_Attributes_from ==
    \E a \in Attribute :
        Construct(Attributes_from(a),
             [NoCall EXCEPT !.op = "from", !.x = a],
             a # Normal,
             IF a # Normal THEN NativeOf(a) ELSE 0)

Next ==
    \/ Call_set_alternative_char_set
    \/ Call_set_bold
    \/ Call_set_blink
    \/ Call_set_char_text
    \/ Call_set_dim
    \/ Call_set_leftline
    \/ Call_set_invisible
    \/ Call_set_italic
    \/ Call_set_normal
    \/ Call_set_overline
    \/ Call_set_reverse
    \/ Call_set_rightline
    \/ Call_set_strikeout
    \/ Call_set_underline
    \/ Call_set_color_pair
    \/ Call_bitor_Attributes_Attribute
    \/ Call_bitor_Attributes_Attributes
    \/ Call_new
    \/ Call_bitor_Attribute_Attribute
    \/ Call_Attributes_from

Spec == Init /\ [][Next]_vars

(* ------------------------- queries by attribute ------------------------ *)

\* the is_X() query of flag attribute t
Is(t, self) ==
    CASE t = "AlternativeCharSet" -> is_alternative_char_set(self)
      [] t = "Bold" -> is_bold(self)
      [] t = "Blink" -> is_blink(self)
      [] t = "CharText" -> is_char_text(self)
      [] t = "Dim" -> is_dim(self)
      [] t = "Leftline" -> is_leftline(self)
      [] t = "Invisible" -> is_invisible(self)
      [] t = "Italic" -> is_italic(self)
      [] t = "Overline" -> is_overline(self)
      [] t = "Reverse" -> is_reverse(self)
      [] t = "Rightline" -> is_rightline(self)
      [] t = "Strikeout" -> is_strikeout(self)
      [] t = "Underline" -> is_underline(self)

\* the query that answers for Attribute a: is_normal() for Normal,
\* color_pair() == n for ColorPair(n), is_X() for a flag
Query(a, self) ==
    CASE a.tag = "Normal" -> is_normal(self)
      [] a.tag = "ColorPair" -> color_pair(self) = a.num
      [] OTHER -> Is(a.tag, self)

NoOtherFlag(a, b, self) == \A t \in FlagTags \ {a.tag, b.tag} : ~Is(t, self)

NoFlag(self) == \A t \in FlagTags : ~Is(t, self)

(* ------------------------------- claims -------------------------------- *)

\* C1: after set_X(enabled) the query is_X() returns `enabled`, whatever
\* is_X() was before the call.
C1_SetThenQuery ==
    call.op = "set" => (Is(call.x.tag, attributes) <=> call.enabled)

\* C2: Attributes | Attributes is the bitwise union of the two raw masks, so
\* every is_X() is true on a | b exactly when it is true on a or on b.
C2_BitOrIsUnion ==
    call.op = "bitor_attributes" =>
        /\ chtype_from_Attributes(attributes) =
               BitOr(chtype_from_Attributes(prev), chtype_from_Attributes(call.rhs))
        /\ \A t \in FlagTags :
               Is(t, attributes) <=> (Is(t, prev) \/ Is(t, call.rhs))

\* (new()|Bold) | (new()|Reverse)-like case: bold from the left operand,
\* reverse only from the right operand, italic from neither.
C2_Witness ==
    /\ call.op = "bitor_attributes"
    /\ is_bold(prev) /\ ~is_bold(call.rhs)
    /\ ~is_reverse(prev) /\ is_reverse(call.rhs)
    /\ is_bold(attributes) /\ is_reverse(attributes) /\ ~is_italic(attributes)

\* C3: after set_normal() (or | Attribute::Normal) every is_X() is false,
\* is_normal() is true, the raw mask is 0 and no color pair remains:
\* color_pair() reports the pair the raw mask encodes, i.e. none.
C3_NormalClearsAll ==
    (call.op = "set_normal" \/ (call.op = "bitor_attribute" /\ call.x = Normal)) =>
        /\ NoFlag(attributes)
        /\ is_normal(attributes)
        /\ chtype_from_Attributes(attributes) = 0
        /\ COLOR_PAIR(color_pair(attributes)) = BitAnd(attributes.raw, A_COLOR)
        /\ color_pair(attributes) = 0

\* C4: after set_color_pair(n), color_pair() returns n and a second
\* set_color_pair(n) leaves both fields as they are.
C4_ColorPairIdempotent ==
    call.op = "set_color_pair" =>
        /\ color_pair(attributes) = call.x.num
        /\ set_color_pair(attributes, call.x.num) = attributes

\* a pair assigned over a different, non-zero pair
C4_Witness ==
    /\ call.op = "set_color_pair"
    /\ call.x.num = 2
    /\ color_pair(prev) = 1
    /\ color_pair(attributes) = 2

\* C5 (as stated): a | b answers true to the query for a and to the query
\* for b, and false to every flag that is neither, for every pair of
\* Attribute values including Normal and ColorPair(n).
C5_BothSetAsStated ==
    call.op = "attribute_bitor" =>
        /\ Query(call.x, attributes)
        /\ Query(call.y, attributes)
        /\ NoOtherFlag(call.x, call.y, attributes)

\* C5 (amended): a | b sets no flag that is neither a nor b; when neither
\* operand is Normal and they are not two ColorPairs with different numbers,
\* the queries for a and for b are both true; a | Normal is normal with no
\* flag set; Normal | b is Attributes::from(b); ColorPair(n) | ColorPair(m)
\* reports color_pair() == m.
C5_BothSet ==
    call.op = "attribute_bitor" =>
        LET a == call.x
            b == call.y
        IN /\ NoOtherFlag(a, b, attributes)
           /\ (/\ a # Normal
               /\ b # Normal
               /\ ~(a.tag = "ColorPair" /\ b.tag = "ColorPair" /\ a.num # b.num))
                  => (Query(a, attributes) /\ Query(b, attributes))
           /\ b = Normal => (is_normal(attributes) /\ NoFlag(attributes))
           /\ a = Normal => attributes = Attributes_from(b)
           /\ (a.tag = "ColorPair" /\ b.tag = "ColorPair")
                  => color_pair(attributes) = b.num

\* Attribute::Blink | Attribute::Reverse
C5_Witness ==
    /\ call.op = "attribute_bitor"
    /\ call.x = Flag("Blink")
    /\ call.y = Flag("Reverse")
    /\ is_blink(attributes) /\ is_reverse(attributes) /\ ~is_bold(attributes)

\* C6: s | a for a flag attribute a has is_a() true, keeps every flag that
\* was set on s, and leaves color_pair() unchanged.
C6_BitOrAdds ==
    (call.op = "bitor_attribute" /\ call.x.tag \in FlagTags) =>
        /\ Is(call.x.tag, attributes)
        /\ \A t \in FlagTags : Is(t, prev) => Is(t, attributes)
        /\ color_pair(attributes) = color_pair(prev)

\* a flag added to a value that already holds another flag and a color pair
C6_Witness ==
    /\ call.op = "bitor_attribute"
    /\ call.x = Flag("Bold")
    /\ is_reverse(prev) /\ ~is_bold(prev) /\ color_pair(prev) = 1
    /\ is_bold(attributes) /\ is_reverse(attributes)

\* C7: chtype::from(a) is the native constant of a (0 for Normal,
\* COLOR_PAIR(n) for ColorPair(n)), and a value built from new() only by
\* `| a1 | ... | ak` with no Normal converts to the `|` of their constants.
C7_NativeEncoding ==
    /\ \A a \in Attribute : chtype_from_Attribute(a) = NativeOf(a)
    /\ orOnly => chtype_from_Attributes(attributes) = nativeOr

\* Bold | Underline | ColorPair(2): two flags and a color pair
C7_Witness ==
    /\ orOnly
    /\ call.op = "bitor_attribute"
    /\ call.x = ColorPair(2)
    /\ is_bold(attributes) /\ is_underline(attributes)
    /\ chtype_from_Attributes(attributes) = A_BOLD + A_UNDERLINE + COLOR_PAIR(2)

\* C8: the color bits of the raw mask are always COLOR_PAIR(color_pair()).
C8_PairMatchesMask ==
    BitAnd(attributes.raw, A_COLOR) = COLOR_PAIR(color_pair(attributes))

\* C9: set_X(enabled) leaves every other flag's query and color_pair() as
\* they were; set_color_pair(n) leaves every flag's query as it was.
C9_SetterFrame ==
    /\ call.op = "set" =>
           /\ \A t \in FlagTags \ {call.x.tag} : Is(t, attributes) <=> Is(t, prev)
           /\ color_pair(attributes) = color_pair(prev)
    /\ call.op = "set_color_pair" =>
           \A t \in FlagTags : Is(t, attributes) <=> Is(t, prev)

\* a flag that is set is switched off on a value holding a color pair
C9_Witness ==
    /\ call.op = "set"
    /\ call.x = Flag("Bold")
    /\ ~call.enabled
    /\ is_bold(prev) /\ color_pair(prev) = 1
    /\ ~is_bold(attributes) /\ color_pair(attributes) = 1

=============================================================================
